---- MODULE Spec2Model ----
(***************************************************************************)
(* Model of the reporters of the bugzilla operator:                        *)
(*   - NewBugReporter   (package new)                                      *)
(*   - BlockersReporter (package blockers)                                 *)
(*   - EscalationReporter (package escalation)                             *)
(* Each reporter's sync handler is one action.  The tracker, the           *)
(* persistent key/value store and the chat client are the environment:     *)
(* the tracker's content and the stored value are state, the failures of   *)
(* the external calls are inputs of the actions.                           *)
(*                                                                         *)
(* Strings that the code parses or formats are sequences of one-character  *)
(* strings; all other strings are opaque.                                  *)
(***************************************************************************)
EXTENDS Integers, Sequences, FiniteSets, TLC

VARIABLES
    tracker,   \* the issues the tracker holds, in the order Search returns them
    cfg,       \* config.OperatorConfig: Components, Groups, Release
    store,     \* the persisted value under the new-bug reporter's state key
    nb,        \* what the last NewBugReporter.sync did
    bl,        \* what the last BlockersReporter.sync did
    esc        \* what the last EscalationReporter.sync did

vars == <<tracker, cfg, store, nb, bl, esc>>

----------------------------------------------------------------------------
(* Bounds of the model *)

\* issues held by the tracker in the new-bug runs: up to SmallBugs, or from
\* TruncateAt to MaxBugs
SmallBugs == 3
MaxBugs == 55
\* issues held by the tracker in the blockers runs
MaxResult == 2
\* size of the developer roster behind a lead
MaxTeam == 20
\* escalated issues of one team
MaxEsc == 5

(* Program constants *)

\* "if i > 50" of the new-bug loop
TruncateAt == 50
\* "len(newBugs)-50" of the new-bug loop
MoreOffset == 50

----------------------------------------------------------------------------
(* Generic helpers: Go slices are sequences, Go maps are functions whose   *)
(* domain is the set of keys present.                                      *)

Max(x, y) == IF x > y THEN x ELSE y

EmptyMap == <<>>

\* m[k] = append(m[k], v)
MapAppend(m, k, v) ==
    IF k \in DOMAIN m THEN [m EXCEPT ![k] = Append(@, v)]
    ELSE m @@ (k :> <<v>>)

\* m[k]++
MapInc(m, k) ==
    IF k \in DOMAIN m THEN [m EXCEPT ![k] = @ + 1]
    ELSE m @@ (k :> 1)

\* m[k] of a map of slices, nil when absent
MapGet(m, k) == IF k \in DOMAIN m THEN m[k] ELSE <<>>

ToSet(s) == {s[i] : i \in 1..Len(s)}

\* all orders in which a range loop may visit the keys of a map
Orders(S) == {p \in [1..Cardinality(S) -> S] : \A i, j \in 1..Cardinality(S) : p[i] = p[j] => i = j}

\* the greatest element of a sequence of naturals, 0 for the empty one
SeqMax(s) == IF s = <<>> THEN 0 ELSE CHOOSE m \in ToSet(s) : \A x \in ToSet(s) : x <= m

----------------------------------------------------------------------------
(* strconv.Itoa / strconv.Atoi on decimal strings *)

Digits == <<"0", "1", "2", "3", "4", "5", "6", "7", "8", "9">>

DigitVal(c) == CHOOSE d \in 0..9 : Digits[d + 1] = c

IsDigit(c) == \E d \in 0..9 : Digits[d + 1] = c

RECURSIVE NatToStr(_)
NatToStr(n) == IF n < 10 THEN <<Digits[n + 1]>> ELSE Append(NatToStr(n \div 10), Digits[(n % 10) + 1])

Itoa(n) == IF n < 0 THEN <<"-">> \o NatToStr(0 - n) ELSE NatToStr(n)

RECURSIVE StrToNat(_, _)
StrToNat(s, acc) == IF s = <<>> THEN acc ELSE StrToNat(Tail(s), acc * 10 + DigitVal(Head(s)))

\* Atoi: an optional sign, then one or more digits; anything else is an error
Atoi(s) ==
    LET signed == s # <<>> /\ Head(s) \in {"+", "-"}
        body == IF signed THEN Tail(s) ELSE s
        ok == body # <<>> /\ \A i \in 1..Len(body) : IsDigit(body[i])
    IN  IF ~ok THEN [ok |-> FALSE, val |-> 0]
        ELSE [ok |-> TRUE,
              val |-> IF signed /\ Head(s) = "-" THEN 0 - StrToNat(body, 0) ELSE StrToNat(body, 0)]

----------------------------------------------------------------------------
(* Issues and the tracker *)

\* the components the reporters are constructed with
ReporterComponents == {"apiserver", "etcd", "network", "docs", "storage", "console"}

\* a bugzilla.Bug with every field at its zero value but ID, status and component
MkBug(id) ==
    [ID |-> id, AssignedTo |-> "", Status |-> "NEW", Severity |-> "", Priority |-> "",
     Keywords |-> <<>>, Whiteboard |-> <<>>, TargetRelease |-> <<>>, Flags |-> <<>>,
     Escalation |-> "", ExternalBugs |-> <<>>, Component |-> <<"apiserver">>,
     recent |-> TRUE]

\* the value of the field an advanced predicate names
FieldOf(b, field) ==
    CASE field = "bug_id" -> b.ID
      [] field = "bug_severity" -> b.Severity
      [] field = "priority" -> b.Priority
      [] OTHER -> ""

\* one (field, operator, value) predicate of a query, as the tracker
\* evaluates it; num is the predicate's value read as a number
AdvancedHolds(b, aq, num) ==
    CASE aq.Op = "greaterthan" -> num.ok /\ FieldOf(b, aq.Field) > num.val
      [] aq.Op = "greaterthaneq" /\ aq.Field = "creation_ts" -> b.recent
      [] aq.Op = "notequals" -> FieldOf(b, aq.Field) # aq.Value
      [] aq.Op = "equals" -> FieldOf(b, aq.Field) = aq.Value
      [] OTHER -> TRUE

\* the release the tracker files an issue under: "---" when none is set
TrackerRelease(b) == IF b.TargetRelease = <<>> THEN "---" ELSE b.TargetRelease[1]

\* client.Search on a tracker that answers: the issues that satisfy every
\* part of the query, in the tracker's order
Search(q) ==
    LET statuses == ToSet(q.Status)
        releases == ToSet(q.TargetRelease)
        nums == [i \in 1..Len(q.Advanced) |->
                    IF q.Advanced[i].Op = "greaterthan" THEN Atoi(q.Advanced[i].Value)
                    ELSE [ok |-> FALSE, val |-> 0]]
        Matches(b) ==
            /\ b.Status \in statuses
            /\ \E i \in 1..Len(b.Component) : b.Component[i] \in q.Component
            /\ releases # {} => TrackerRelease(b) \in releases
            /\ \A i \in 1..Len(q.Advanced) : AdvancedHolds(b, q.Advanced[i], nums[i])
    IN  SelectSeq(tracker, Matches)

----------------------------------------------------------------------------
(* NewBugReporter *)

NewBugsQueryNoBootstrap(components, lastID) ==
    [Status |-> <<"NEW">>, Component |-> components, TargetRelease |-> <<>>,
     Advanced |-> <<[Field |-> "bug_id", Op |-> "greaterthan", Value |-> Itoa(lastID)]>>,
     IncludeFields |-> <<"id", "assigned_to", "component", "summary">>]

\* getNewBugs: the query it builds
NewBugsQuery(components, lastID) ==
    LET aq == IF lastID = 0
              THEN [Field |-> "creation_ts", Op |-> "greaterthaneq", Value |-> <<"-", "2", "4", "h">>]
              ELSE [Field |-> "bug_id", Op |-> "greaterthan", Value |-> Itoa(lastID)]
    IN  [Status |-> <<"NEW">>, Component |-> components, TargetRelease |-> <<>>,
         Advanced |-> <<aq>>,
         IncludeFields |-> <<"id", "assigned_to", "component", "summary">>]

\* the loop of sync over newBugs: it visits the 0-based indexes 0, 1, ... and
\* breaks at the end of the first iteration with i > TruncateAt, so it visits
\* the first TruncateAt + 2 issues at most.  lastID is raised to every
\* greater identifier visited, so it ends as the greatest of its start value
\* and the identifiers visited.  Yields the lastID the loop ends with and the
\* entries collected for the message.
NewBugLoop(newBugs, lastID) ==
    LET breaks == Len(newBugs) - 1 > TruncateAt
        visited == IF breaks THEN TruncateAt + 2 ELSE Len(newBugs)
        seen == {lastID} \cup {newBugs[k].ID : k \in 1..visited}
        links == [k \in 1..visited |-> [link |-> newBugs[k].ID]]
    IN  [lastID |-> CHOOSE m \in seen : \A x \in seen : x <= m,
         ids |-> IF breaks THEN Append(links, [more |-> Len(newBugs) - MoreOffset])
                 ELSE links]

\* the lastID sync starts with, from the persisted string: 0 when there is
\* none or when it does not parse
ParseState(s) ==
    IF s = <<>> THEN 0
    ELSE IF Atoi(s).ok THEN Atoi(s).val ELSE 0

DeferredNever(lastID) == <<>>

\* the deferred function, registered once the stored value is read: one
\* SetPersistentValue with the lastID the cycle ended with
Deferred(lastID) == <<[op |-> "SetPersistentValue", value |-> Itoa(lastID)]>>

LastError(err, persistErr) == IF persistErr = "nil" THEN err ELSE persistErr

\* the deferred function's "if err == nil { err = persistErr }"
FirstError(err, persistErr) == IF err = "nil" THEN persistErr ELSE err

\* NewBugReporter.sync as a function of the stored value and of how the
\* external calls answer: the calls it makes, in order, and the error it returns
NewBugSyncRun(s, getFails, searchFails, setFails) ==
    LET lastID == ParseState(s)
        q == NewBugsQuery(ReporterComponents, lastID)
        get == [op |-> "GetPersistentValue"]
        srch == [op |-> "Search", query |-> q]
        newBugs == Search(q)
        loop == NewBugLoop(newBugs, lastID)
        persistErr == IF setFails THEN "persistErr" ELSE "nil"
    IN  IF getFails
        THEN [err |-> "getErr", calls |-> <<get>>, lastID |-> 0, found |-> <<>>]
        ELSE IF searchFails
        THEN [err |-> FirstError("searchErr", persistErr),
              calls |-> <<get, srch>> \o Deferred(lastID),
              lastID |-> lastID, found |-> <<>>]
        ELSE [err |-> FirstError("nil", persistErr),
              calls |-> <<get, srch, [op |-> "MessageAdminChannel", ids |-> loop.ids]>>
                        \o Deferred(loop.lastID),
              lastID |-> lastID,
              found |-> [i \in 1..Len(newBugs) |-> newBugs[i].ID]]

\* the SetPersistentValue calls of a run
Written(calls) == SelectSeq(calls, LAMBDA c : c.op = "SetPersistentValue")

\* how the external calls of one new-bug cycle may answer (TRUE: the call
\* succeeds); a call the cycle does not reach has no answer to choose
NewBugAnswers ==
    {[get |-> FALSE, search |-> FALSE, set |-> FALSE, send |-> FALSE]}
    \cup {[get |-> TRUE, search |-> FALSE, set |-> x, send |-> FALSE] : x \in BOOLEAN}
    \cup {[get |-> TRUE, search |-> TRUE, set |-> x, send |-> y] : x, y \in BOOLEAN}

NewBugSync ==
    \E ans \in NewBugAnswers :
        LET getFails == ~ans.get
            searchFails == ans.get /\ ~ans.search
            setFails == ans.get /\ ~ans.set
            sendFails == ans.get /\ ans.search /\ ~ans.send
            run == NewBugSyncRun(store, getFails, searchFails, setFails)
            w == Written(run.calls)
        IN  /\ nb' = [ran |-> TRUE, start |-> store, lastID |-> run.lastID,
                      getFailed |-> getFails, searchFailed |-> searchFails,
                      setFailed |-> setFails, sendFailed |-> sendFails,
                      err |-> run.err, calls |-> run.calls, found |-> run.found]
            /\ store' = IF w # <<>> /\ ~setFails THEN w[Len(w)].value ELSE store
            /\ UNCHANGED <<tracker, cfg, bl, esc>>

----------------------------------------------------------------------------
(* BlockersReporter *)

seriousKeywords == <<"ServiceDeliveryBlocker", "TestBlocker", "UpgradeBlocker">>

\* bugutil.FormatBugMessage: the display line of an issue
FormatBugMessage(bug) == [line |-> bug.ID, status |-> bug.Status, to |-> bug.AssignedTo]

\* strings.Contains(bug.Whiteboard, word), the whiteboard being a list of words
WhiteboardContains(bug, word) == \E i \in 1..Len(bug.Whiteboard) : bug.Whiteboard[i] = word

hasFlag(bug, name, value) ==
    \E i \in 1..Len(bug.Flags) : bug.Flags[i].Name = name /\ bug.Flags[i].Status = value

\* lines 105-108: the first target release, "---" when there is none
ResolvedRelease(bug) == IF Len(bug.TargetRelease) > 0 THEN bug.TargetRelease[1] ELSE "---"

IsUrgentBoth(bug) == bug.Priority = "urgent" /\ bug.Severity = "urgent"

\* line 95
IsUrgent(bug) == bug.Priority = "urgent" \/ bug.Severity = "urgent"

InReleaseCurrentOnly(bug, currentTargetRelease) ==
    ResolvedRelease(bug) = currentTargetRelease

\* the release gate of lines 110, 116 and 128
InRelease(bug, currentTargetRelease) ==
    ResolvedRelease(bug) = currentTargetRelease \/ ResolvedRelease(bug) = "---"

\* line 123
NeedsTriage(bug, currentTargetRelease) ==
    \/ (ResolvedRelease(bug) = currentTargetRelease /\ bug.Status \in {"NEW", ""})
    \/ ResolvedRelease(bug) = "---"
    \/ bug.Priority = "unspecified" \/ bug.Priority = ""
    \/ bug.Severity = "unspecified" \/ bug.Severity = ""

EmptySummary ==
    [seriousIDs |-> EmptyMap, blockerPlus |-> <<>>, blockerPlusIDs |-> <<>>,
     blockerQuestionmark |-> <<>>, blockerQuestionmarkIDs |-> <<>>,
     toTriage |-> <<>>, toTriageIDs |-> <<>>,
     needUpcomingSprint |-> <<>>, needUpcomingSprintIDs |-> <<>>,
     urgentIDs |-> <<>>, urgent |-> <<>>, staleCount |-> 0,
     priorityCount |-> EmptyMap, severityCount |-> EmptyMap, currentReleaseCount |-> 0]

\* lines 82-86: the serious keywords of one issue, from keyword k on
RECURSIVE AddSerious(_, _, _)
AddSerious(ids, bug, k) ==
    IF k > Len(seriousKeywords) THEN ids
    ELSE AddSerious(IF seriousKeywords[k] \in ToSet(bug.Keywords)
                    THEN MapAppend(ids, seriousKeywords[k], bug.ID) ELSE ids,
                    bug, k + 1)

\* the body of the loop of summarizeBugs for one issue
SummarizeBug(r, bug, currentTargetRelease) ==
    LET line == FormatBugMessage(bug)
        r1 == [r EXCEPT !.seriousIDs = AddSerious(@, bug, 1),
                        !.staleCount = IF WhiteboardContains(bug, "LifecycleStale") THEN @ + 1 ELSE @,
                        !.severityCount = MapInc(@, bug.Severity),
                        !.priorityCount = MapInc(@, bug.Priority)]
        r2 == IF IsUrgent(bug)
              THEN [r1 EXCEPT !.urgent = Append(@, line), !.urgentIDs = Append(@, bug.ID)]
              ELSE r1
        r3 == IF "UpcomingSprint" \notin ToSet(bug.Keywords)
              THEN [r2 EXCEPT !.needUpcomingSprint = Append(@, line),
                              !.needUpcomingSprintIDs = Append(@, bug.ID)]
              ELSE r2
        r4 == IF hasFlag(bug, "blocker", "+") /\ InRelease(bug, currentTargetRelease)
              THEN [r3 EXCEPT !.blockerPlus = Append(@, line),
                              !.blockerPlusIDs = Append(@, bug.ID),
                              !.seriousIDs = MapAppend(@, "blocker+", bug.ID)]
              ELSE r3
        r5 == IF hasFlag(bug, "blocker", "?") /\ InRelease(bug, currentTargetRelease)
              THEN [r4 EXCEPT !.blockerQuestionmark = Append(@, line),
                              !.blockerQuestionmarkIDs = Append(@, bug.ID),
                              !.seriousIDs = MapAppend(@, "blocker?", bug.ID)]
              ELSE r4
        r6 == IF NeedsTriage(bug, currentTargetRelease)
              THEN [r5 EXCEPT !.toTriage = Append(@, line), !.toTriageIDs = Append(@, bug.ID)]
              ELSE r5
    IN  IF InRelease(bug, currentTargetRelease)
        THEN [r6 EXCEPT !.currentReleaseCount = @ + 1]
        ELSE r6

RECURSIVE SummarizeFrom(_, _, _, _)
SummarizeFrom(r, bugs, i, currentTargetRelease) ==
    IF i > Len(bugs) THEN r
    ELSE SummarizeFrom(SummarizeBug(r, bugs[i], currentTargetRelease), bugs, i + 1,
                       currentTargetRelease)

summarizeBugs(currentTargetRelease, bugs) ==
    SummarizeFrom(EmptySummary, bugs, 1, currentTargetRelease)

getBugsQuery(components, targetRelease) ==
    [Status |-> <<"NEW", "ASSIGNED", "POST", "ON_DEV">>, Component |-> components,
     TargetRelease |-> targetRelease,
     Advanced |-> <<[Field |-> "bug_severity", Op |-> "notequals", Value |-> "low"],
                    [Field |-> "priority", Op |-> "notequals", Value |-> "low"]>>,
     IncludeFields |-> <<"id", "assigned_to", "keywords", "status", "resolution", "summary",
                         "changeddate", "severity", "priority", "target_release",
                         "whiteboard", "flags">>]

\* makeBugzillaLink: the link text and the identifiers of its v1 parameter
makeBugzillaLink(hrefText, ids) == [href |-> hrefText, v1 |-> ids]

sortedPrioNames == <<"urgent", "high", "medium", "low", "unspecified">>

\* lines 301-312: the non-zero counts in the order of sortedPrioNames
Breakdown(count) ==
    LET present == SelectSeq(sortedPrioNames, LAMBDA p : p \in DOMAIN count /\ count[p] > 0)
    IN  [i \in 1..Len(present) |-> <<count[present[i]], present[i]>>]

\* getStatsForChannel; keyOrder is the order in which the range loop of line
\* 325 visits the keys of summary.seriousIDs
getStatsForChannel(targetRelease, activeBugsCount, summary, keyOrder) ==
    LET keys == SelectSeq(keyOrder, LAMBDA k : Len(summary.seriousIDs[k]) > 0)
    IN  <<[stat |-> "all", count |-> activeBugsCount],
          [stat |-> "release", release |-> targetRelease, count |-> summary.currentReleaseCount],
          [stat |-> "severity", breakdown |-> Breakdown(summary.severityCount)],
          [stat |-> "priority", breakdown |-> Breakdown(summary.priorityCount)],
          [stat |-> "stale", count |-> summary.staleCount]>>
        \o [i \in 1..Len(keys) |->
              [stat |-> "serious", keyword |-> keys[i],
               link |-> makeBugzillaLink(Len(summary.seriousIDs[keys[i]]), summary.seriousIDs[keys[i]])]]

\* the []*bugzilla.Bug that Report returns beside the summary: line 258
\* returns nil, whatever the search found
ReportReturnsBugs(bugs) == <<>>

\* lines 239 and 242: what the search of Report finds when it answers
BlockersFound == Search(getBugsQuery(ReporterComponents, <<"---">> \o cfg.Release.TargetReleases))

\* Report of the blockers package, the search having answered
BlockersReport(keyOrder) ==
    LET bugs == BlockersFound
        summary == summarizeBugs(cfg.Release.CurrentTargetRelease, bugs)
    IN  [report |-> getStatsForChannel(cfg.Release.CurrentTargetRelease, Len(bugs), summary, keyOrder),
         summary |-> summary,
         bugs |-> ReportReturnsBugs(bugs),
         found |-> bugs]

\* lines 154-157
ByID(bugs) == [id \in {bugs[i].ID : i \in 1..Len(bugs)} |->
                  LET last == CHOOSE i \in 1..Len(bugs) :
                                 /\ bugs[i].ID = id
                                 /\ \A j \in 1..Len(bugs) : bugs[j].ID = id => j <= i
                  IN  bugs[last]]

\* perPerson, lines 159-171, from the i-th identifier on
RECURSIVE PerPersonFrom(_, _, _, _, _)
PerPersonFrom(acc, ids, lines, byID, i) ==
    IF i > Len(ids) THEN acc
    ELSE IF ids[i] \notin DOMAIN byID THEN PerPersonFrom(acc, ids, lines, byID, i + 1)
    ELSE LET b == byID[ids[i]]
         IN  PerPersonFrom([ids |-> MapAppend(acc.ids, b.AssignedTo, ids[i]),
                            lines |-> MapAppend(acc.lines, b.AssignedTo, lines[i])],
                           ids, lines, byID, i + 1)

perPerson(ids, lines, byID) ==
    PerPersonFrom([ids |-> EmptyMap, lines |-> EmptyMap], ids, lines, byID, 1)

\* notifyPersons, lines 177-187: the MessageEmail calls it makes (the order
\* of the range loop over the map is not kept)
notifyPersons(intro, suffix, perPersonBugs, outro) ==
    {[to |-> person, intro |-> intro, count |-> Len(perPersonBugs[person]), suffix |-> suffix,
      lines |-> perPersonBugs[person], outro |-> outro]
     : person \in {x \in DOMAIN perPersonBugs : Len(perPersonBugs[x]) # 0}}

\* one section of sendAdminDebugStats (the order of the range loop is not kept)
DebugSection(what, perPersonIDs) ==
    {[person |-> makeBugzillaLink(person, perPersonIDs[person]),
      count |-> Len(perPersonIDs[person]), what |-> what]
     : person \in {x \in DOMAIN perPersonIDs : Len(perPersonIDs[x]) > 0}}

\* the sections of the message of sendAdminDebugStats, in order
sendAdminDebugStats(perPersonBlockersIDs, perPersonToTriageIDs, perPersonUrgentIDs) ==
    <<DebugSection("blocker+ bugs", perPersonBlockersIDs),
      DebugSection("bugs that need triage", perPersonToTriageIDs),
      DebugSection("urgent bugs", perPersonUrgentIDs)>>

\* line 174: the identifiers and display lines sync hands to perPerson for the
\* blocker+ notification
BlockerPlusSource(summary) == [ids |-> summary.toTriageIDs, lines |-> summary.toTriage]

\* BlockersReporter.sync, the search having answered: what it groups, the
\* calls it makes to the chat client and the error it returns
BlockersSyncRun(keyOrder) ==
    LET r == BlockersReport(keyOrder)
        summary == r.summary
        byID == ByID(r.bugs)
        ppToTriage == perPerson(summary.toTriageIDs, summary.toTriage, byID)
        ppBlockerPlus == perPerson(BlockerPlusSource(summary).ids,
                                   BlockerPlusSource(summary).lines, byID)
        ppUrgent == perPerson(summary.urgentIDs, summary.urgent, byID)
    IN  [found |-> r.found, summary |-> summary,
         blockerPlusSource |-> BlockerPlusSource(summary),
         perPersonToTriageIDs |-> ppToTriage.ids, perPersonToTriage |-> ppToTriage.lines,
         perPersonBlockerPlusIDs |-> ppBlockerPlus.ids, perPersonBlockerPlus |-> ppBlockerPlus.lines,
         perPersonUrgentIDs |-> ppUrgent.ids, perPersonUrgent |-> ppUrgent.lines,
         emails |-> [triage |-> notifyPersons("triageIntro", "", ppToTriage.lines, "triageOutro"),
                     blocker |-> notifyPersons("blockerIntro", cfg.Release.CurrentTargetRelease,
                                               ppBlockerPlus.lines, "blockerOutro"),
                     urgent |-> notifyPersons("urgentIntro", "", ppUrgent.lines, "urgentOutro")],
         channel |-> r.report,
         admin |-> sendAdminDebugStats(ppBlockerPlus.ids, ppToTriage.ids, ppUrgent.ids),
         err |-> "nil"]

\* how the external calls of one blockers cycle may answer: the search fails,
\* or it succeeds and the chat client accepts everything, or refuses the
\* mails to alice, the channel message and the admin message
BlockersAnswers ==
    {[search |-> FALSE, refused |-> {}, channel |-> TRUE, admin |-> TRUE],
     [search |-> TRUE, refused |-> {}, channel |-> TRUE, admin |-> TRUE],
     [search |-> TRUE, refused |-> {"alice"}, channel |-> FALSE, admin |-> FALSE]}

BlockersSync ==
    \E ans \in BlockersAnswers :
        /\ IF ~ans.search
           THEN bl' = [ran |-> TRUE, searchFailed |-> TRUE, err |-> "searchErr"]
           ELSE \E keyOrder \in Orders(DOMAIN summarizeBugs(cfg.Release.CurrentTargetRelease,
                                                             BlockersFound).seriousIDs) :
                   bl' = BlockersSyncRun(keyOrder)
                         @@ [ran |-> TRUE, searchFailed |-> FALSE, refused |-> ans.refused,
                             channelFailed |-> ~ans.channel, adminFailed |-> ~ans.admin]
        /\ UNCHANGED <<tracker, cfg, store, nb, esc>>

----------------------------------------------------------------------------
(* EscalationReporter *)

\* getSeverityUrgentBugs: the query it builds
SeverityUrgentQuery(components) ==
    [Status |-> <<"NEW", "ASSIGNED", "POST", "ON_DEV">>, Component |-> components,
     TargetRelease |-> <<>>, Advanced |-> <<>>,
     IncludeFields |-> <<"id", "assigned_to", "status", "severity", "priority",
                         "external_bugs", "component", "summary">>]

\* bugutil.GetBugURL: the link to an issue
GetBugURL(b) == [url |-> b.ID]

\* config.ExpandGroups: the identifiers behind the entries `todo`, an entry
\* that names a group standing for its members, transitively; a group
\* already expanded is not expanded again
RECURSIVE ExpandFrom(_, _, _, _)
ExpandFrom(groups, todo, seen, users) ==
    IF todo = <<>> THEN users
    ELSE LET x == Head(todo)
         IN  IF x \in DOMAIN groups
             THEN IF x \in seen THEN ExpandFrom(groups, Tail(todo), seen, users)
                  ELSE ExpandFrom(groups, groups[x] \o Tail(todo), seen \cup {x}, users)
             ELSE ExpandFrom(groups, Tail(todo), seen, users \cup {x})

ExpandGroups(groups, roots) == ExpandFrom(groups, roots, {}, {})

\* the component names of the runs, in the order of their spelling
NamesInOrder == <<"apiserver", "console", "docs", "etcd", "network", "storage">>

\* sets.String.List() on component names: the elements by spelling
SortedNames(S) == SelectSeq(NamesInOrder, LAMBDA n : n \in S)

\* sets.String.List() on developers and groups: the elements in ascending order
RECURSIVE SortedList(_)
SortedList(S) ==
    IF S = {} THEN <<>>
    ELSE LET least == CHOOSE x \in S : \A y \in S : x <= y
         IN  <<least>> \o SortedList(S \ {least})

\* lines 70-76
HasCustomerCase(b) == \E i \in 1..Len(b.ExternalBugs) : b.ExternalBugs[i].Type = "SFDC"

EligibleWithoutFlag(b) ==
    \/ (HasCustomerCase(b) /\ b.Priority = "urgent")
    \/ (HasCustomerCase(b) /\ b.Severity = "urgent" /\ b.Priority = "unspecified")

\* the condition of line 78
Eligible(b) ==
    \/ b.Escalation = "Yes"
    \/ (HasCustomerCase(b) /\ b.Priority = "urgent")
    \/ (HasCustomerCase(b) /\ b.Severity = "urgent" /\ b.Priority = "unspecified")

\* the condition of line 91
Silenced(b) == b.Severity = "urgent" /\ b.Priority # "unspecified"

\* cfg.Components[name].Lead, "" for a component that is not configured
LeadOf(name) == IF name \in DOMAIN cfg.Components THEN cfg.Components[name].Lead ELSE ""

\* the body of the loop of Report for one issue, lines 69-93
AggregateBug(a, b) ==
    IF Eligible(b)
    THEN LET a1 == [a EXCEPT !.assigned = MapAppend(@, b.AssignedTo, b)]
         IN  IF Len(b.Component) > 0
             THEN LET a2 == IF b.Component[1] \notin DOMAIN cfg.Components
                            THEN [a1 EXCEPT !.missingComponents = @ \cup {b.Component[1]}]
                            ELSE a1
                  IN  IF LeadOf(b.Component[1]) # ""
                      THEN [a2 EXCEPT !.leadsBugs = MapAppend(@, LeadOf(b.Component[1]), b)]
                      ELSE a2
             ELSE a1
    ELSE IF Silenced(b) THEN [a EXCEPT !.silenced = Append(@, b)]
    ELSE a

RECURSIVE AggregateFrom(_, _, _)
AggregateFrom(a, bugs, i) ==
    IF i > Len(bugs) THEN a ELSE AggregateFrom(AggregateBug(a, bugs[i]), bugs, i + 1)

\* lines 64-94
Aggregate(bugs) ==
    AggregateFrom([assigned |-> EmptyMap, silenced |-> <<>>, leadsBugs |-> EmptyMap,
                   missingComponents |-> {}], bugs, 1)

\* lines 107-113: the team of a lead
TeamOf(lead) ==
    LET comps == {c \in DOMAIN cfg.Components : cfg.Components[c].Lead = lead}
        roots == UNION {ToSet(cfg.Components[c].Developers) : c \in comps}
    IN  ExpandGroups(cfg.Groups, SortedList(roots))

QuotaRoundedUp(teamSize) == Max(1, (teamSize * 2 + 9) \div 10)

\* line 114: max(1, int(float64(len(team))*0.2)); the conversion to int
\* truncates, and the float64 nearest to 0.2 is not below 0.2, so the product
\* never falls short of a whole number it should reach
MaxEscalations(teamSize) == Max(1, (teamSize * 2) \div 10)

AtQuota(count, maxEscalations) == count >= maxEscalations

\* line 116
AboveQuota(count, maxEscalations) == count > maxEscalations

\* lines 106-125 for one lead
LeadLines(lead, bugs) ==
    LET maxEscalations == MaxEscalations(Cardinality(TeamOf(lead)))
    IN  <<IF AboveQuota(Len(bugs), maxEscalations)
          THEN [kind |-> "team", lead |-> lead, bugs |-> Len(bugs), siren |-> TRUE,
                quota |-> maxEscalations]
          ELSE [kind |-> "team", lead |-> lead, bugs |-> Len(bugs), siren |-> FALSE]>>
        \o [i \in 1..Len(bugs) |->
              [kind |-> "bug", url |-> GetBugURL(bugs[i]), status |-> bugs[i].Status,
               to |-> bugs[i].AssignedTo]]

RECURSIVE AllLeadLines(_, _, _)
AllLeadLines(leadsBugs, leadOrder, i) ==
    IF i > Len(leadOrder) THEN <<>>
    ELSE LeadLines(leadOrder[i], leadsBugs[leadOrder[i]]) \o AllLeadLines(leadsBugs, leadOrder, i + 1)

\* lines 127-145
AssigneeLines(assigned, assigneeOrder) ==
    LET many == SelectSeq(assigneeOrder, LAMBDA x : Len(assigned[x]) # 1)
    IN  IF many = <<>> THEN <<>>
        ELSE <<[kind |-> "blank"], [kind |-> "assignees"]>>
             \o [i \in 1..Len(many) |->
                   [kind |-> "assignee", assignee |-> many[i],
                    links |-> [j \in 1..Len(assigned[many[i]]) |-> GetBugURL(assigned[many[i]][j])]]]

\* lines 147-153
SilencedLines(silenced) ==
    IF Len(silenced) > 0
    THEN <<[kind |-> "blank"],
           [kind |-> "silenced", count |-> Len(silenced),
            links |-> [j \in 1..Len(silenced) |-> GetBugURL(silenced[j])]]>>
    ELSE <<>>

\* Report of the escalation package, the search having answered with bugs;
\* leadOrder and assigneeOrder are the orders in which the range loops of
\* lines 106 and 128 visit the keys of their maps
EscalationReport(bugs, leadOrder, assigneeOrder) ==
    LET a == Aggregate(bugs)
    IN  [assigned |-> a.assigned, silenced |-> a.silenced, leadsBugs |-> a.leadsBugs,
         missingComponents |-> a.missingComponents,
         admin |-> IF Cardinality(a.missingComponents) > 0
                   THEN <<SortedNames(a.missingComponents)>> ELSE <<>>,
         report |-> IF DOMAIN a.leadsBugs = {} /\ Len(a.silenced) = 0 THEN <<>>
                    ELSE <<[kind |-> "title"], [kind |-> "blank"]>>
                         \o AllLeadLines(a.leadsBugs, leadOrder, 1)
                         \o AssigneeLines(a.assigned, assigneeOrder)
                         \o SilencedLines(a.silenced)]

\* lines 45-54 of sync: the error returned once Report has answered
EscalationSyncErr(report, channelFails) ==
    IF Len(report) = 0 THEN "nil"
    ELSE IF channelFails THEN "deliveryErr"
    ELSE "nil"

\* what the search of Report finds when it answers
EscalationFound == Search(SeverityUrgentQuery(ReporterComponents))

\* how the external calls of one escalation cycle may answer
EscalationAnswers ==
    {[search |-> FALSE, channel |-> TRUE, admin |-> TRUE],
     [search |-> TRUE, channel |-> TRUE, admin |-> TRUE],
     [search |-> TRUE, channel |-> FALSE, admin |-> TRUE],
     [search |-> TRUE, channel |-> TRUE, admin |-> FALSE]}

EscalationSync ==
    \E ans \in EscalationAnswers :
        /\ IF ~ans.search
           THEN esc' = [ran |-> TRUE, searchFailed |-> TRUE, err |-> "searchErr"]
           ELSE LET a == Aggregate(EscalationFound)
                IN  \E leadOrder \in Orders(DOMAIN a.leadsBugs),
                       assigneeOrder \in Orders(DOMAIN a.assigned) :
                       LET r == EscalationReport(EscalationFound, leadOrder, assigneeOrder)
                       IN  esc' = r @@ [ran |-> TRUE, searchFailed |-> FALSE,
                                        found |-> EscalationFound,
                                        channel |-> IF Len(r.report) = 0 THEN <<>> ELSE <<r.report>>,
                                        channelFailed |-> Len(r.report) # 0 /\ ~ans.channel,
                                        adminFailed |-> r.admin # <<>> /\ ~ans.admin,
                                        err |-> EscalationSyncErr(r.report, ~ans.channel)]
        /\ UNCHANGED <<tracker, cfg, store, nb, bl>>

----------------------------------------------------------------------------
(* Initial states *)

NoRun == [ran |-> FALSE]

EmptyCfg ==
    [Components |-> EmptyMap, Groups |-> EmptyMap,
     Release |-> [CurrentTargetRelease |-> "4.6.0", TargetReleases |-> <<"4.6.0", "4.5.0">>]]

\* what the store may hold before the first cycle: nothing, or a value some
\* other writer left there
InitialStore == {<<>>, <<"1", "x">>, <<"0", "3">>}

\* n NEW issues with identifiers 1..n, for small n and for n around the
\* truncation threshold of the loop, in ascending or in descending order;
\* the first `old` identifiers are older than a day
NewBugTrackers ==
    {[i \in 1..n |->
        LET id == IF asc THEN i ELSE n + 1 - i
        IN  [MkBug(id) EXCEPT !.recent = id > old]]
     : n \in (0..SmallBugs) \cup (TruncateAt..MaxBugs), asc \in BOOLEAN, old \in {0, 1}}

InitNewBug ==
    /\ tracker \in NewBugTrackers
    /\ cfg = EmptyCfg
    /\ store \in InitialStore
    /\ nb = NoRun
    /\ bl = NoRun
    /\ esc = NoRun

SpecNewBug == InitNewBug /\ [][NewBugSync]_vars

\* The issues of the blockers runs: one subject issue, whose severity,
\* priority, flags, target releases and assignee vary, among companions.

BlockersCfg == EmptyCfg

SubjectIssues ==
    {[MkBug(10) EXCEPT !.Severity = sp[1], !.Priority = sp[2], !.Flags = fl,
                       !.TargetRelease = tr, !.AssignedTo = who, !.Status = "ASSIGNED"]
     : sp \in {<<"urgent", "high">>, <<"high", "urgent">>, <<"medium", "unspecified">>},
       fl \in {<<>>, <<[Name |-> "blocker", Status |-> "+"]>>,
               <<[Name |-> "needinfo", Status |-> "?"], [Name |-> "blocker", Status |-> "?"]>>},
       tr \in {<<>>, <<"---">>, <<"4.6.0">>, <<"4.5.0", "4.6.0">>},
       who \in {"alice", "bob"}}

CompanionIssues ==
    {[MkBug(11) EXCEPT !.Severity = "urgent", !.Priority = "urgent",
                       !.Flags = <<[Name |-> "blocker", Status |-> "+"]>>,
                       !.TargetRelease = <<"4.6.0">>, !.AssignedTo = "alice",
                       !.Keywords = <<"TestBlocker">>, !.Status = "ASSIGNED"],
     [MkBug(12) EXCEPT !.Severity = "high", !.Priority = "medium",
                       !.TargetRelease = <<"4.5.0">>, !.AssignedTo = "bob",
                       !.Keywords = <<"UpcomingSprint">>,
                       !.Whiteboard = <<"LifecycleStale">>, !.Status = "POST"],
     [MkBug(13) EXCEPT !.Severity = "low", !.Priority = "high",
                       !.TargetRelease = <<"4.6.0">>, !.AssignedTo = "bob"],
     [MkBug(14) EXCEPT !.Severity = "unspecified", !.Priority = "unspecified",
                       !.Flags = <<[Name |-> "blocker", Status |-> "?"]>>,
                       !.AssignedTo = ""]}

\* the sequences of at most n distinct companions
RECURSIVE CompanionSeqs(_)
CompanionSeqs(n) ==
    IF n = 0 THEN {<<>>}
    ELSE CompanionSeqs(n - 1)
         \cup {Append(cs, c) : cs \in {x \in CompanionSeqs(n - 1) : Len(x) = n - 1},
                               c \in CompanionIssues}

\* s with x inserted so that it becomes the element at position k
InsertAt(s, k, x) ==
    [i \in 1..(Len(s) + 1) |-> IF i < k THEN s[i] ELSE IF i = k THEN x ELSE s[i - 1]]

\* the companions stand in the order of their identifiers
Ascending(s) == \A i, j \in 1..Len(s) : i < j => s[i].ID < s[j].ID

BlockersTrackers ==
    CompanionSeqs(1)
    \cup UNION {{InsertAt(cs, k, subj) : k \in 1..(Len(cs) + 1)}
                : subj \in SubjectIssues,
                  cs \in {x \in CompanionSeqs(MaxResult - 1) : Ascending(x)}}

InitBlockers ==
    /\ tracker \in {t \in BlockersTrackers : Len(t) <= MaxResult}
    /\ cfg = BlockersCfg
    /\ store = <<>>
    /\ nb = NoRun
    /\ bl = NoRun
    /\ esc = NoRun

SpecBlockers == InitBlockers /\ [][BlockersSync]_vars

\* The configuration of the escalation runs: lead1 leads apiserver and etcd,
\* whose developers expand to t persons through two groups that name each
\* other; lead2 leads network with one developer; docs has no lead; storage
\* and console are not configured.  Persons are numbered, groups are 101, 102.
EscalationCfg(t) ==
    [Components |->
        [c \in {"apiserver", "etcd", "network", "docs"} |->
            CASE c = "apiserver" -> [Lead |-> "lead1", Developers |-> <<101>>]
              [] c = "etcd" -> [Lead |-> "lead1", Developers |-> [i \in 1..(IF t < 2 THEN t ELSE 2) |-> i]]
              [] c = "network" -> [Lead |-> "lead2", Developers |-> <<1>>]
              [] OTHER -> [Lead |-> "", Developers |-> <<3>>]],
     Groups |-> [g \in {101, 102} |->
                    IF g = 101 THEN <<102>> \o [i \in 1..(t \div 2) |-> i]
                    ELSE <<101>> \o [i \in 1..(t - t \div 2) |-> t \div 2 + i]],
     Release |-> EmptyCfg.Release]

\* the team size of the runs with one subject issue
SubjectTeam == 7

EscalationSubjects ==
    {[MkBug(10) EXCEPT !.Escalation = e, !.ExternalBugs = x, !.Priority = p, !.Severity = sv,
                       !.Component = <<c>>, !.AssignedTo = who]
     : e \in {"Yes", ""},
       x \in {<<>>, <<[Type |-> "Github"], [Type |-> "SFDC"]>>},
       p \in {"urgent", "unspecified", "high"},
       sv \in {"urgent", "high"},
       c \in {"apiserver", "network", "docs", "storage"},
       who \in {"alice", "bob"}}

EscalationCompanions ==
    {[MkBug(11) EXCEPT !.Escalation = "Yes", !.Severity = "urgent", !.Priority = "urgent",
                       !.Component = <<"etcd">>, !.AssignedTo = "alice"],
     [MkBug(12) EXCEPT !.Severity = "urgent", !.Priority = "high",
                       !.Component = <<"network">>, !.AssignedTo = "bob"],
     [MkBug(13) EXCEPT !.Escalation = "Yes", !.Severity = "urgent", !.Priority = "unspecified",
                       !.Component = <<"console">>, !.AssignedTo = "bob"],
     [MkBug(14) EXCEPT !.Escalation = "Yes", !.Severity = "urgent", !.Priority = "urgent",
                       !.Component = <<"apiserver">>, !.AssignedTo = "alice",
                       !.Status = "CLOSED"]}

RECURSIVE EscCompanionSeqs(_)
EscCompanionSeqs(n) ==
    IF n = 0 THEN {<<>>}
    ELSE EscCompanionSeqs(n - 1)
         \cup {Append(cs, c) : cs \in {x \in EscCompanionSeqs(n - 1) : Len(x) = n - 1},
                               c \in EscalationCompanions}

EscalationTrackers ==
    UNION {{InsertAt(cs, k, subj) : k \in 1..(Len(cs) + 1)}
           : subj \in EscalationSubjects,
             cs \in {x \in EscCompanionSeqs(MaxResult - 1) : Ascending(x)}}

\* k escalated issues of lead1's team, assigned in turn to alice and to bob
TeamLoad(k) ==
    [i \in 1..k |->
        [MkBug(20 + i) EXCEPT !.Escalation = "Yes", !.Severity = "urgent", !.Priority = "urgent",
                              !.Component = <<IF i % 2 = 1 THEN "apiserver" ELSE "etcd">>,
                              !.AssignedTo = IF i % 2 = 1 THEN "alice" ELSE "bob",
                              !.Status = "ASSIGNED"]]

InitEscalation ==
    /\ \/ tracker \in EscalationTrackers /\ cfg = EscalationCfg(SubjectTeam)
       \/ \E k \in 0..MaxEsc, t \in 0..MaxTeam : tracker = TeamLoad(k) /\ cfg = EscalationCfg(t)
    /\ store = <<>>
    /\ nb = NoRun
    /\ bl = NoRun
    /\ esc = NoRun

SpecEscalation == InitEscalation /\ [][EscalationSync]_vars

\* every reporter, on any of the trackers above
Init == InitNewBug \/ InitBlockers \/ InitEscalation

Next == NewBugSync \/ BlockersSync \/ EscalationSync

Spec == Init /\ [][Next]_vars



----------------------------------------------------------------------------
(* Claims about the new-bug detection cycle *)

\* the query predicate the last new-bug cycle sent to the tracker
NbPredicate == nb.calls[2].query.Advanced[1]

NbSent == SelectSeq(nb.calls, LAMBDA c : c.op = "MessageAdminChannel")

NbReadAndSearchOk == nb.ran /\ ~nb.getFailed /\ ~nb.searchFailed

\* C1: after a cycle whose read and search both succeed, the value persisted
\* is max(previous watermark, max of the identifiers of the result set),
\* whatever the size and order of the result set; with an empty result set it
\* is the previous watermark.
C1_WatermarkIsMax ==
    (NbReadAndSearchOk /\ ~nb.setFailed) =>
        store = Itoa(Max(nb.lastID, SeqMax(nb.found)))

\* C2, as stated: in every cycle, whatever step fails, SetPersistentValue is
\* attempted exactly once and is the last call of the cycle.
C2_PersistAlwaysOnce ==
    nb.ran =>
        /\ Len(Written(nb.calls)) = 1
        /\ nb.calls[Len(nb.calls)].op = "SetPersistentValue"

\* C2, amended: when the read of the persisted value succeeds,
\* SetPersistentValue is attempted exactly once and is the last call of the
\* cycle, whether the search fails or not; when the read fails the cycle
\* makes no other call and attempts no persist.
C2_PersistOnceAfterRead ==
    nb.ran =>
        /\ ~nb.getFailed =>
              /\ Len(Written(nb.calls)) = 1
              /\ nb.calls[Len(nb.calls)].op = "SetPersistentValue"
        /\ nb.getFailed =>
              /\ nb.calls = <<[op |-> "GetPersistentValue"]>>
              /\ nb.err = "getErr"

C2_Witness ==
    /\ nb.ran /\ ~nb.getFailed /\ nb.searchFailed
    /\ Len(nb.calls) = 3

\* C3: when the search fails the cycle sends no notification, writes a value
\* not greater than the watermark it started with, and returns the tracker's
\* error even when the persist fails too; the persist error is returned only
\* by a cycle that had no error of its own.
C3_SearchFailure ==
    /\ (nb.ran /\ ~nb.getFailed /\ nb.searchFailed) =>
          /\ NbSent = <<>>
          /\ \A i \in 1..Len(Written(nb.calls)) :
                /\ Atoi(Written(nb.calls)[i].value).ok
                /\ Atoi(Written(nb.calls)[i].value).val <= nb.lastID
          /\ nb.err = "searchErr"
    /\ (nb.ran /\ nb.err = "persistErr") =>
          ~nb.getFailed /\ ~nb.searchFailed /\ nb.setFailed

C3_Witness ==
    /\ nb.ran /\ ~nb.getFailed /\ nb.searchFailed /\ nb.setFailed
    /\ nb.lastID > 0
    /\ nb.err = "searchErr"

Unparsable(s) == s # <<>> /\ ~Atoi(s).ok

C4_WitnessIncremental ==
    /\ nb.ran /\ nb.lastID > 0 /\ nb.err = "nil"
    /\ NbPredicate.Field = "bug_id"
    /\ nb.found # <<>>

----------------------------------------------------------------------------
(* Claims about the blockers cycle *)

BlSearchOk == bl.ran /\ ~bl.searchFailed

\* the identifiers of the issues of `bugs` that satisfy P, in the order of `bugs`
IdsWhere(bugs, P(_)) ==
    LET sel == SelectSeq(bugs, P) IN [i \in 1..Len(sel) |-> sel[i].ID]

\* the assignee of the issue of the query result with identifier id
AssigneeOf(id) == (CHOOSE b \in ToSet(bl.found) : b.ID = id).AssignedTo

\* the identifiers of a category that belong to person a, in the category's order
GroupOf(categoryIDs, a) == SelectSeq(categoryIDs, LAMBDA id : AssigneeOf(id) = a)

\* C6: in a blockers cycle whose search succeeds, the per-assignee lists of
\* the to-triage and of the urgent category hold every identifier of the
\* category exactly once, under the issue's assignee and in the category's
\* order; no identifier of the result set is skipped, and every assignee with
\* a member issue gets a notification.
C6_GroupingPreservesMembership ==
    BlSearchOk =>
        \A a \in {bl.found[i].AssignedTo : i \in 1..Len(bl.found)} :
            /\ MapGet(bl.perPersonToTriageIDs, a) = GroupOf(bl.summary.toTriageIDs, a)
            /\ MapGet(bl.perPersonUrgentIDs, a) = GroupOf(bl.summary.urgentIDs, a)
            /\ GroupOf(bl.summary.toTriageIDs, a) # <<>> =>
                  \E m \in bl.emails.triage : m.to = a
            /\ GroupOf(bl.summary.urgentIDs, a) # <<>> =>
                  \E m \in bl.emails.urgent : m.to = a

BlockerPlusKey == MapGet(bl.summary.seriousIDs, "blocker+")

HasBlockerPlus(b) == \E i \in 1..Len(b.Flags) : b.Flags[i] = [Name |-> "blocker", Status |-> "+"]

UrgentAsStated(b) == b.Priority = "urgent" \/ b.Severity = "urgent"

BlockerAsStated(b) ==
    /\ HasBlockerPlus(b)
    /\ \/ b.TargetRelease = <<>>
       \/ b.TargetRelease # <<>> /\ b.TargetRelease[1] = cfg.Release.CurrentTargetRelease

BlockerAmended(b) ==
    /\ HasBlockerPlus(b)
    /\ \/ b.TargetRelease = <<>>
       \/ b.TargetRelease # <<>> /\ b.TargetRelease[1] \in {cfg.Release.CurrentTargetRelease, "---"}

\* C7, as stated: every issue of the input is in the urgent bucket iff its
\* priority or its severity is "urgent", and in the blocker+ bucket and under
\* the key "blocker+" iff it has the flag blocker=+ and its first target
\* release is the reference release or its target-release list is empty; each
\* bucket holds its members once, in input order.
C7_BucketsAsStated ==
    BlSearchOk =>
        /\ bl.summary.urgentIDs = IdsWhere(bl.found, UrgentAsStated)
        /\ bl.summary.blockerPlusIDs = IdsWhere(bl.found, BlockerAsStated)
        /\ BlockerPlusKey = IdsWhere(bl.found, BlockerAsStated)

\* C7, amended: as stated, but the blocker+ bucket also holds the issues with
\* the flag blocker=+ whose first target release is the sentinel "---".
C7_Buckets ==
    BlSearchOk =>
        /\ bl.summary.urgentIDs = IdsWhere(bl.found, UrgentAsStated)
        /\ bl.summary.blockerPlusIDs = IdsWhere(bl.found, BlockerAmended)
        /\ BlockerPlusKey = IdsWhere(bl.found, BlockerAmended)

\* two issues in both buckets, one of them with the sentinel as target release
C7_Witness ==
    /\ BlSearchOk
    /\ Len(bl.summary.urgentIDs) = 2
    /\ bl.summary.blockerPlusIDs = bl.summary.urgentIDs
    /\ \E i \in 1..Len(bl.found) :
          bl.found[i].TargetRelease = <<"---">> /\ UrgentAsStated(bl.found[i])

----------------------------------------------------------------------------
(* Claims on the escalation reporter and on delivery *)

EscSearchOk == esc.ran /\ ~esc.searchFailed

\* C5 (as stated): a failed MessageChannel, MessageAdminChannel or MessageEmail
\* never makes a cycle of any reporter return an error: a cycle whose other
\* calls all succeeded returns no error, whatever its sends answered.
C5_DeliveryNeverFatal ==
    /\ (nb.ran /\ NbReadAndSearchOk /\ ~nb.setFailed) => nb.err = "nil"
    /\ BlSearchOk => bl.err = "nil"
    /\ EscSearchOk => esc.err = "nil"

\* the issues the aggregator filed under some key of the map m
Filed(m) == UNION {ToSet(m[k]) : k \in DOMAIN m}

\* C8 (as stated): every issue the escalation aggregator receives, and so
\* every issue in assigned, leadsBugs or silenced, has severity "urgent".
C8_OnlyUrgentSeverity ==
    EscSearchOk =>
        \A b \in ToSet(esc.found) \cup Filed(esc.assigned) \cup Filed(esc.leadsBugs)
                 \cup ToSet(esc.silenced) : b.Severity = "urgent"

EligibleAsStated(b) ==
    LET hasCustomerCase == "SFDC" \in {b.ExternalBugs[i].Type : i \in 1..Len(b.ExternalBugs)}
    IN  \/ b.Escalation = "Yes"
        \/ (hasCustomerCase /\ b.Priority = "urgent")
        \/ (hasCustomerCase /\ b.Severity = "urgent" /\ b.Priority = "unspecified")

Configured(b) == b.Component[1] \in DOMAIN cfg.Components

\* C9: every issue the aggregator receives is in assigned, under its assignee
\* and under no other key, iff it is eligible; it is in silenced iff it is not
\* eligible, has severity "urgent" and a priority other than "unspecified"
\* (so never in both); an eligible issue is in leadsBugs[lead] iff its primary
\* component is configured with the non-empty lead `lead`, and no other issue
\* is in leadsBugs; the missing set holds exactly the primary components of
\* eligible issues that the configuration does not know, whatever the
\* position of those issues in the input.
C9_Aggregation ==
    EscSearchOk =>
        /\ \A b \in ToSet(esc.found) :
              /\ (b \in Filed(esc.assigned)) = EligibleAsStated(b)
              /\ \A k \in DOMAIN esc.assigned :
                    (b \in ToSet(esc.assigned[k])) => k = b.AssignedTo
              /\ (b \in ToSet(esc.silenced))
                    = (~EligibleAsStated(b) /\ b.Severity = "urgent" /\ b.Priority # "unspecified")
              /\ ~(b \in Filed(esc.assigned) /\ b \in ToSet(esc.silenced))
              /\ \A lead \in DOMAIN esc.leadsBugs \cup {"lead1", "lead2"} :
                    (lead \in DOMAIN esc.leadsBugs /\ b \in ToSet(esc.leadsBugs[lead]))
                    = (/\ EligibleAsStated(b)
                       /\ Configured(b)
                       /\ cfg.Components[b.Component[1]].Lead = lead)
        /\ "" \notin DOMAIN esc.leadsBugs
        /\ Filed(esc.assigned) \cup ToSet(esc.silenced) \cup Filed(esc.leadsBugs)
              \subseteq ToSet(esc.found)
        /\ esc.missingComponents
              = {b.Component[1] : b \in {x \in ToSet(esc.found) : EligibleAsStated(x) /\ ~Configured(x)}}

\* an eligible issue of an unknown component comes first, and the issue after
\* it is filed under its lead; another run files an issue as silenced
C9_Witness ==
    /\ EscSearchOk
    /\ Len(esc.found) = 2
    /\ EligibleAsStated(esc.found[1]) /\ ~Configured(esc.found[1])
    /\ esc.found[1].Escalation = "Yes"
    /\ esc.missingComponents = {esc.found[1].Component[1]}
    /\ esc.found[2] \in Filed(esc.leadsBugs)
    /\ esc.found[2].Escalation # "Yes"

\* the members of the groups in S, added to S
Unfold(S) == S \cup UNION {ToSet(cfg.Groups[g]) : g \in S \cap DOMAIN cfg.Groups}

RECURSIVE Closure(_)
Closure(S) == IF Unfold(S) = S THEN S ELSE Closure(Unfold(S))

\* the group-expanded union of the developers of the components led by lead
TeamAsStated(lead) ==
    Closure(UNION {ToSet(cfg.Components[c].Developers)
                   : c \in {x \in DOMAIN cfg.Components : cfg.Components[x].Lead = lead}})
    \ DOMAIN cfg.Groups

\* max(1, floor(0.2 * teamSize))
QuotaAsStated(teamSize) == IF teamSize \div 5 > 1 THEN teamSize \div 5 ELSE 1

TeamLinesOf(lead) ==
    {i \in 1..Len(esc.report) : esc.report[i].kind = "team" /\ esc.report[i].lead = lead}

\* C10: the report has one line for every lead with escalated issues; the
\* line is the over-quota one iff the lead has more issues than
\* max(1, floor(0.2 * |team|)), the team being the group-expanded union of the
\* developers of the lead's components, and the over-quota line shows that
\* quota; the quota is 1 for a team of 0, 1 or 7, 2 for 10, 4 for 20, and
\* never less than 1.
C10_Quota ==
    /\ QuotaAsStated(0) = 1 /\ QuotaAsStated(1) = 1 /\ QuotaAsStated(7) = 1
    /\ QuotaAsStated(10) = 2 /\ QuotaAsStated(20) = 4
    /\ EscSearchOk =>
          \A lead \in DOMAIN esc.leadsBugs :
              LET quota == QuotaAsStated(Cardinality(TeamAsStated(lead)))
              IN  /\ quota >= 1
                  /\ Cardinality(TeamLinesOf(lead)) = 1
                  /\ \A i \in TeamLinesOf(lead) :
                        /\ esc.report[i].bugs = Len(esc.leadsBugs[lead])
                        /\ esc.report[i].siren = (Len(esc.leadsBugs[lead]) > quota)
                        /\ esc.report[i].siren => esc.report[i].quota = quota

\* a team of 7 with 2 escalated issues is over its quota of 1
C10_Witness ==
    /\ EscSearchOk
    /\ "lead1" \in DOMAIN esc.leadsBugs
    /\ Cardinality(TeamAsStated("lead1")) = 7
    /\ Len(esc.leadsBugs["lead1"]) = 2
    /\ \E i \in TeamLinesOf("lead1") : esc.report[i].siren /\ esc.report[i].quota = 1

\* a team of 20 with 4 escalated issues is at its quota of 4, not over it
C10_WitnessAtQuota ==
    /\ EscSearchOk
    /\ "lead1" \in DOMAIN esc.leadsBugs
    /\ Cardinality(TeamAsStated("lead1")) = 20
    /\ Len(esc.leadsBugs["lead1"]) = 4
    /\ \E i \in TeamLinesOf("lead1") : ~esc.report[i].siren

----------------------------------------------------------------------------
(* Claims on the blocker+ notification and on the order of the texts *)

\* the identifiers of ids whose issue, as the search returned it, is assigned
\* to person, in the order of ids
IdsOf(ids, person) ==
    SelectSeq(ids, LAMBDA id : \E i \in 1..Len(bl.found) :
                                  bl.found[i].ID = id /\ bl.found[i].AssignedTo = person)

\* C11 (as stated): the blocker+ notification is built from the identifiers
\* and display lines of the blocker+ bucket, and the groups handed to the
\* blocker+ mails and to the "blocker+ bugs" section of the admin statistics
\* hold, for every assignee, exactly the issues of the blocker+ bucket that
\* are assigned to them.
C11_BlockerPlusOwnData ==
    BlSearchOk =>
        /\ bl.blockerPlusSource.ids = bl.summary.blockerPlusIDs
        /\ bl.blockerPlusSource.lines = bl.summary.blockerPlus
        /\ \A person \in {bl.found[i].AssignedTo : i \in 1..Len(bl.found)} :
              /\ MapGet(bl.perPersonBlockerPlusIDs, person)
                    = IdsOf(bl.summary.blockerPlusIDs, person)
              /\ (\E e \in bl.emails.blocker : e.to = person)
                    = (IdsOf(bl.summary.blockerPlusIDs, person) # <<>>)
              /\ (\E d \in bl.admin[1] : d.person.href = person)
                    = (IdsOf(bl.summary.blockerPlusIDs, person) # <<>>)

\* two consecutive blockers cycles whose searches both answered
BlTwoRuns == BlSearchOk /\ bl'.ran /\ ~bl'.searchFailed

\* two consecutive escalation cycles whose searches both answered
EscTwoRuns == EscSearchOk /\ esc'.ran /\ ~esc'.searchFailed

\* the escalation part of C12 alone: two escalation cycles in a row produce
\* the same report
C12_EscalationReportSame == [][EscTwoRuns => esc'.report = esc.report]_vars

\* C12 (as stated): the tracker content and the configuration being the same
\* (no action changes them), two cycles in a row produce the same sequence
\* of lines: the blockers channel summary, the order of its serious-keyword
\* lines included, and the escalation report, the order of its per-lead and
\* per-assignee sections included.
C12_SameTextEveryRun ==
    [][/\ BlTwoRuns => bl'.channel = bl.channel
       /\ EscTwoRuns => esc'.report = esc.report]_vars

=============================================================================
